---------------------------- MODULE Spec2Model ----------------------------
(***************************************************************************)
(* Model of package itertools (src/itertools/itertools.go) and of the      *)
(* ChunkResult descriptor (types file, src/unnamed/part_000 lines 1-16).   *)
(*                                                                         *)
(* The library is a set of pure functions over slices.  Each function is   *)
(* an operator computed the way its Go loop computes it; a caller state    *)
(* machine draws an input slice in Init and applies the functions, keeping *)
(* each returned value in a variable of its own.                           *)
(*                                                                         *)
(* Conventions                                                             *)
(*  - a slice []T is a sequence; Go index i is TLA+ index i+1;             *)
(*  - a value that may be absent (nil pointer, nil error, "not called      *)
(*    yet") is a sequence of length 0 or 1;                                *)
(*  - a predicate func(T) bool is the set of elements it accepts;          *)
(*  - Go's int is a two's complement integer of IntBits bits.              *)
(***************************************************************************)
EXTENDS Integers, Sequences, FiniteSets, TLC

(* ------------------------------ bounds -------------------------------- *)

\* longest input slice
MaxLen == 4

\* elements are 1..MaxElem; 0 is the zero value of the element type
MaxElem == 3

\* keys produced by key functions are 1..MaxKey
MaxKey == 2

\* width of Go's int in the model (64 or 32 in a real build)
IntBits == 4

(* --------------------------- Go int arithmetic ------------------------ *)

Pow2(n) == 2 ^ n

MaxInt == Pow2(IntBits - 1) - 1

MinInt == 0 - Pow2(IntBits - 1)

\* the value an int holds after an operation whose exact result is x
Wrap(x) == ((x - MinInt) % Pow2(IntBits)) + MinInt

Abs(x) == IF x < 0 THEN 0 - x ELSE x

\* Go's / on ints truncates toward zero (b # 0)
GoDiv(a, b) ==
    LET q == Abs(a) \div Abs(b)
    IN  IF (a < 0) = (b < 0) THEN Wrap(q) ELSE Wrap(0 - q)

\* Go's % on ints: the sign follows the dividend (b # 0)
GoMod(a, b) == a - (b * GoDiv(a, b))

(* ------------------------------ domains ------------------------------- *)

Elem == 1..MaxElem

Zero == 0

Keys == 1..MaxKey

Iterables == UNION {[1..n -> Elem] : n \in 0..MaxLen}

Predicates == SUBSET Elem

KeyFns == [Elem -> Keys]

Sizes == MinInt..MaxInt

\* make([]T, n): n zero values
Make(n) == [i \in 1..n |-> Zero]

(* ------------------------- TakeWhile / SkipWhile ---------------------- *)

\* the range loop of TakeWhile from index i (1-based) with accumulator result
RECURSIVE TakeWhileLoop(_, _, _, _)
TakeWhileLoop(iterable, predicate, i, result) ==
    IF i > Len(iterable) THEN result
    ELSE IF iterable[i] \in predicate
         THEN TakeWhileLoop(iterable, predicate, i + 1, Append(result, iterable[i]))
         ELSE result

\* the same loop with `continue` in place of `break`
RECURSIVE TakeWhileLoop_NoBreak(_, _, _, _)
TakeWhileLoop_NoBreak(iterable, predicate, i, result) ==
    IF i > Len(iterable) THEN result
    ELSE IF iterable[i] \in predicate
         THEN TakeWhileLoop_NoBreak(iterable, predicate, i + 1, Append(result, iterable[i]))
         ELSE TakeWhileLoop_NoBreak(iterable, predicate, i + 1, result)

\* TakeWhile that keeps scanning after the first failing element
TakeWhile_NoBreak(iterable, predicate) ==
    TakeWhileLoop_NoBreak(iterable, predicate, 1, Make(0))

\* TakeWhile whose result buffer starts with one element: make([]T, 1)
TakeWhile_Make1(iterable, predicate) ==
    TakeWhileLoop(iterable, predicate, 1, Make(1))

TakeWhile(iterable, predicate) ==
    TakeWhileLoop(iterable, predicate, 1, Make(0))

\* the index loop of SkipWhile from Go index i
RECURSIVE SkipWhileLoop(_, _, _)
SkipWhileLoop(iterable, predicate, i) ==
    IF ~(i < Len(iterable)) THEN Make(0)
    ELSE IF ~(iterable[i + 1] \in predicate)
         THEN Make(0) \o SubSeq(iterable, i + 1, Len(iterable))
         ELSE SkipWhileLoop(iterable, predicate, i + 1)

\* the loop with the test inverted and the found element dropped:
\* result = append(make([]T, 1), iterable[i+1:]...) at the first accepted one
RECURSIVE DropWhileLoop(_, _, _)
DropWhileLoop(iterable, predicate, i) ==
    IF ~(i < Len(iterable)) THEN Make(1)
    ELSE IF iterable[i + 1] \in predicate
         THEN Make(1) \o SubSeq(iterable, i + 2, Len(iterable))
         ELSE DropWhileLoop(iterable, predicate, i + 1)

SkipWhile_Drop(iterable, predicate) == DropWhileLoop(iterable, predicate, 0)

SkipWhile(iterable, predicate) == SkipWhileLoop(iterable, predicate, 0)

(* -------------------------------- Filter ------------------------------ *)

RECURSIVE FilterLoop(_, _, _, _)
FilterLoop(iterable, predicate, i, result) ==
    IF i > Len(iterable) THEN result
    ELSE LET ok == iterable[i] \in predicate
         IN  IF ok
             THEN FilterLoop(iterable, predicate, i + 1, Append(result, iterable[i]))
             ELSE FilterLoop(iterable, predicate, i + 1, result)

\* Filter whose result buffer starts full: make([]T, len(iterable))
Filter_MakeLen(iterable, predicate) ==
    FilterLoop(iterable, predicate, 1, Make(Len(iterable)))

Filter(iterable, predicate) == FilterLoop(iterable, predicate, 1, Make(0))

(* ------------------------------- Flatten ------------------------------ *)

\* first loop of Flatten: the sum of the nested lengths
RECURSIVE FlattenCount(_, _, _)
FlattenCount(iterable, i, nElements) ==
    IF i > Len(iterable) THEN nElements
    ELSE FlattenCount(iterable, i + 1, Wrap(nElements + Len(iterable[i])))

\* second loop of Flatten: append every nested slice
RECURSIVE FlattenLoop(_, _, _)
FlattenLoop(iterable, i, flattened) ==
    IF i > Len(iterable) THEN flattened
    ELSE FlattenLoop(iterable, i + 1, flattened \o iterable[i])

\* make([]T, 0, nElements): length 0, the capacity does not show
Flatten(iterable) ==
    LET nElements == FlattenCount(iterable, 1, 0)
    IN  FlattenLoop(iterable, 1, Make(0))

(* ------------------------------- GroupBy ------------------------------ *)

RECURSIVE GroupByLoop(_, _, _, _)
GroupByLoop(iterable, keyFn, i, result) ==
    IF i > Len(iterable) THEN result
    ELSE LET element == iterable[i]
             key == keyFn[element]
             withKey == IF key \in DOMAIN result
                        THEN result
                        ELSE result @@ (key :> Make(0))
         IN  GroupByLoop(iterable, keyFn, i + 1,
                         [withKey EXCEPT ![key] = Append(@, element)])

\* the loop that appends to a local copy of the group and never stores it
RECURSIVE GroupByLoop_Local(_, _, _, _)
GroupByLoop_Local(iterable, keyFn, i, result) ==
    IF i > Len(iterable) THEN result
    ELSE LET key == keyFn[iterable[i]]
         IN  GroupByLoop_Local(iterable, keyFn, i + 1,
                 IF key \in DOMAIN result THEN result
                 ELSE result @@ (key :> Make(0)))

GroupBy_Local(iterable, keyFn) == GroupByLoop_Local(iterable, keyFn, 1, <<>>)

\* make(map[TKey][]TValue) is the function with the empty domain
GroupBy(iterable, keyFn) == GroupByLoop(iterable, keyFn, 1, <<>>)

(* -------------------------------- Chunk ------------------------------- *)

\* a run-time panic: nothing is returned to the caller
Panic == [result |-> <<>>, err |-> <<>>, panicked |-> TRUE]

\* return nil, fmt.Errorf("%d is not a valid chunk size, ...", size)
ChunkError(size) == [result |-> <<>>, err |-> <<size>>, panicked |-> FALSE]

\* the descriptor built by the return statement of Chunk
ChunkResult(chunks, size, total, remainder) ==
    [Chunks |-> chunks, ChunkSize |-> size, Total |-> total, Remainder |-> remainder]

\* nBatches := (itemCount + size - 1) / size on ints of IntBits bits
NBatches(itemCount, size) == GoDiv(Wrap(Wrap(itemCount + size) - 1), size)

\* start and end of batch i (Go index) as the loop body computes them
ChunkStart(i, size) == Wrap(i * size)

ChunkEnd(i, size, nBatches, remainder) ==
    IF i = nBatches - 1 /\ remainder > 0
    THEN Wrap(ChunkStart(i, size) + remainder)
    ELSE Wrap(ChunkStart(i, size) + size)

\* iterable[start:end] is in range (the input slice is full: cap = len)
SliceOk(iterable, start, end) ==
    0 <= start /\ start <= end /\ end <= Len(iterable)

\* the part of Chunk after the size check
ChunkBody(iterable, size) ==
    IF size = 0 THEN Panic                      \* integer divide by zero
    ELSE
    LET itemCount == Len(iterable)
        nBatches  == NBatches(itemCount, size)
        remainder == GoMod(Len(iterable), size)
    IN  IF nBatches < 0 THEN Panic              \* makeslice: len out of range
        ELSE IF \E i \in 0..(nBatches - 1) :
                    ~SliceOk(iterable, ChunkStart(i, size),
                             ChunkEnd(i, size, nBatches, remainder))
        THEN Panic                              \* slice bounds out of range
        ELSE [result |-> << ChunkResult(
                               [n \in 1..nBatches |->
                                   SubSeq(iterable, ChunkStart(n - 1, size) + 1,
                                          ChunkEnd(n - 1, size, nBatches, remainder))],
                               size, Len(iterable), remainder) >>,
              err |-> <<>>, panicked |-> FALSE]

\* Chunk that rejects only negative sizes: if size < 0
Chunk_RejectNegative(iterable, size) ==
    IF size < 0 THEN ChunkError(size) ELSE ChunkBody(iterable, size)

Chunk(iterable, size) ==
    IF size <= 0 THEN ChunkError(size) ELSE ChunkBody(iterable, size)

(* ------------------------------ the caller ---------------------------- *)

VARIABLES
    iterable,    \* the input slice
    size,        \* the size passed to Chunk, once called
    predicate,   \* the predicate passed to TakeWhile/SkipWhile/Filter, once called
    keyFn,       \* the key function passed to GroupBy, once called
    chunked,     \* what Chunk returned
    flattened,   \* what Flatten returned for the chunks of chunked
    taken,       \* what TakeWhile returned
    skipped,     \* what SkipWhile returned
    kept,        \* what Filter returned for predicate
    rejected,    \* what Filter returned for the negated predicate
    grouped      \* what GroupBy returned

vars == <<iterable, size, predicate, keyFn, chunked, flattened,
          taken, skipped, kept, rejected, grouped>>

Init ==
    /\ iterable \in Iterables
    /\ size = <<>>
    /\ predicate = <<>>
    /\ keyFn = <<>>
    /\ chunked = <<>>
    /\ flattened = <<>>
    /\ taken = <<>>
    /\ skipped = <<>>
    /\ kept = <<>>
    /\ rejected = <<>>
    /\ grouped = <<>>

\* no function of another family has been called on this input
OnlyCalled(family) ==
    /\ ("chunk" \in family \/ (size = <<>> /\ chunked = <<>> /\ flattened = <<>>))
    /\ ("while" \in family \/ (taken = <<>> /\ skipped = <<>>))
    /\ ("filter" \in family \/ (kept = <<>> /\ rejected = <<>>))
    /\ ("group" \in family \/ (keyFn = <<>> /\ grouped = <<>>))
    /\ (family \cap {"while", "filter"} # {} \/ predicate = <<>>)

\* the predicate of this run: the one already in use, else any
PredicateChoices == IF predicate = <<>> THEN Predicates ELSE {predicate[1]}

\* result, err := Chunk(iterable, k)
CallChunk ==
    /\ OnlyCalled({"chunk"})
    /\ chunked = <<>>
    /\ \E k \in Sizes :
          /\ size' = <<k>>
          /\ chunked' = <<Chunk(iterable, k)>>
    /\ UNCHANGED <<iterable, predicate, keyFn, flattened,
                   taken, skipped, kept, rejected, grouped>>

\* Flatten(result.Chunks), for a result that Chunk returned
CallFlatten ==
    /\ chunked # <<>>
    /\ chunked[1].result # <<>>
    /\ flattened = <<>>
    /\ flattened' = <<Flatten(chunked[1].result[1].Chunks)>>
    /\ UNCHANGED <<iterable, size, predicate, keyFn, chunked,
                   taken, skipped, kept, rejected, grouped>>

\* TakeWhile(iterable, p)
CallTakeWhile ==
    /\ OnlyCalled({"while"})
    /\ taken = <<>>
    /\ \E p \in PredicateChoices :
          /\ predicate' = <<p>>
          /\ taken' = <<TakeWhile(iterable, p)>>
    /\ UNCHANGED <<iterable, size, keyFn, chunked, flattened,
                   skipped, kept, rejected, grouped>>

\* SkipWhile(iterable, p)
CallSkipWhile ==
    /\ OnlyCalled({"while"})
    /\ skipped = <<>>
    /\ \E p \in PredicateChoices :
          /\ predicate' = <<p>>
          /\ skipped' = <<SkipWhile(iterable, p)>>
    /\ UNCHANGED <<iterable, size, keyFn, chunked, flattened,
                   taken, kept, rejected, grouped>>

\* Filter(iterable, p)
CallFilter ==
    /\ OnlyCalled({"filter"})
    /\ kept = <<>>
    /\ \E p \in PredicateChoices :
          /\ predicate' = <<p>>
          /\ kept' = <<Filter(iterable, p)>>
    /\ UNCHANGED <<iterable, size, keyFn, chunked, flattened,
                   taken, skipped, rejected, grouped>>

\* Filter(iterable, func(x) bool { return !p(x) })
CallFilterNegated ==
    /\ OnlyCalled({"filter"})
    /\ rejected = <<>>
    /\ \E p \in PredicateChoices :
          /\ predicate' = <<p>>
          /\ rejected' = <<Filter(iterable, Elem \ p)>>
    /\ UNCHANGED <<iterable, size, keyFn, chunked, flattened,
                   taken, skipped, kept, grouped>>

\* GroupBy(iterable, f)
CallGroupBy ==
    /\ OnlyCalled({"group"})
    /\ grouped = <<>>
    /\ \E f \in KeyFns :
          /\ keyFn' = <<f>>
          /\ grouped' = <<GroupBy(iterable, f)>>
    /\ UNCHANGED <<iterable, size, predicate, chunked, flattened,
                   taken, skipped, kept, rejected>>

Next ==
    \/ CallChunk
    \/ CallFlatten
    \/ CallTakeWhile
    \/ CallSkipWhile
    \/ CallFilter
    \/ CallFilterNegated
    \/ CallGroupBy

Spec == Init /\ [][Next]_vars

(* ------------------------------ properties ---------------------------- *)

\* C1: for a non-empty slice and a positive size, Chunk succeeds and Flatten
\* of the returned Chunks is the input slice, element for element.
C1_RoundTrip ==
    (chunked # <<>> /\ iterable # <<>> /\ size[1] > 0) =>
        /\ ~chunked[1].panicked
        /\ chunked[1].err = <<>>
        /\ chunked[1].result # <<>>
        /\ (flattened # <<>> => flattened[1] = iterable)

\* C2: for any slice and any size <= 0, Chunk returns an error carrying the
\* size and a nil result; it does not panic.
C2_InvalidSize ==
    (chunked # <<>> /\ size[1] <= 0) =>
        /\ ~chunked[1].panicked
        /\ chunked[1].err = <<size[1]>>
        /\ chunked[1].result = <<>>

\* C2 witness: Chunk was called on a non-empty slice with size 0 and
\* answered with the error that carries 0.
C2_Witness ==
    /\ chunked # <<>>
    /\ iterable # <<>>
    /\ size[1] = 0
    /\ chunked[1].err = <<0>>

\* C3: for a positive size k, Chunk returns ceil(len/k) chunks; chunk i is
\* the slice of the input from index i*k, of k elements, except that the
\* last holds len mod k elements when that is not zero.
C3_ChunkShape ==
    (chunked # <<>> /\ size[1] > 0) =>
        /\ chunked[1].result # <<>>
        /\ LET k == size[1]
               n == Len(iterable)
               chunks == chunked[1].result[1].Chunks
               count == (n + k - 1) \div k
           IN  /\ Len(chunks) = count
               /\ \A i \in 1..Len(chunks) :
                     /\ chunks[i] = SubSeq(iterable, (i - 1) * k + 1,
                                           IF i * k < n THEN i * k ELSE n)
                     /\ i < count => Len(chunks[i]) = k
                     /\ i = count =>
                           Len(chunks[i]) = IF n % k # 0 THEN n % k ELSE k

\* C4: for a positive size k, the returned descriptor has ChunkSize = k,
\* Total = len, and Remainder = the size of the last chunk when len is not
\* a multiple of k, 0 when it is.
C4_Descriptor ==
    (chunked # <<>> /\ size[1] > 0 /\ chunked[1].result # <<>>) =>
        LET r == chunked[1].result[1]
            k == size[1]
            n == Len(iterable)
        IN  /\ r.ChunkSize = k
            /\ r.Total = n
            /\ (n % k = 0 => r.Remainder = 0)
            /\ (n % k # 0 =>
                   /\ r.Chunks # <<>>
                   /\ r.Remainder = Len(r.Chunks[Len(r.Chunks)]))

\* C5: TakeWhile returns the longest prefix whose elements all satisfy the
\* predicate: a prefix, all accepted, and followed (if by anything) by a
\* rejected element.
C5_TakeWhilePrefix ==
    taken # <<>> =>
        LET t == taken[1]
            n == Len(t)
            p == predicate[1]
        IN  /\ n <= Len(iterable)
            /\ t = SubSeq(iterable, 1, n)
            /\ \A i \in 1..n : iterable[i] \in p
            /\ (n < Len(iterable) => iterable[n + 1] \notin p)

\* C5 witness: TakeWhile stopped inside the slice although a later element
\* satisfies the predicate.
C5_Witness ==
    /\ taken # <<>>
    /\ taken[1] # <<>>
    /\ \E i \in (Len(taken[1]) + 2)..Len(iterable) : iterable[i] \in predicate[1]

\* C6: SkipWhile returns the suffix that starts at the first element not
\* satisfying the predicate, and the empty slice when there is none.
C6_SkipWhileSuffix ==
    skipped # <<>> =>
        LET p == predicate[1]
            failing == {i \in 1..Len(iterable) : iterable[i] \notin p}
        IN  IF failing = {}
            THEN skipped[1] = <<>>
            ELSE LET first == CHOOSE i \in failing : \A j \in failing : i <= j
                 IN  skipped[1] = SubSeq(iterable, first, Len(iterable))

\* C6 witness: SkipWhile skipped some elements and returned a suffix that
\* holds an element satisfying the predicate.
C6_Witness ==
    /\ skipped # <<>>
    /\ skipped[1] # <<>>
    /\ Len(skipped[1]) < Len(iterable)
    /\ \E i \in 2..Len(skipped[1]) : skipped[1][i] \in predicate[1]

\* C7: GroupBy returns a mapping whose keys are exactly the key values of
\* the elements, each key mapped to the elements with that key in their
\* original order; no group is empty.
C7_GroupBy ==
    grouped # <<>> =>
        LET g == grouped[1]
            f == keyFn[1]
        IN  /\ DOMAIN g = {f[iterable[i]] : i \in 1..Len(iterable)}
            /\ \A k \in DOMAIN g :
                  LET HasKey(x) == f[x] = k
                  IN  /\ g[k] = SelectSeq(iterable, HasKey)
                      /\ g[k] # <<>>

\* C7 witness: GroupBy produced two groups, one of them with two different
\* elements.
C7_Witness ==
    /\ grouped # <<>>
    /\ Cardinality(DOMAIN grouped[1]) = 2
    /\ \E k \in DOMAIN grouped[1] :
          /\ Len(grouped[1][k]) >= 2
          /\ grouped[1][k][1] # grouped[1][k][2]

\* C8: Filter returns, in order, exactly the elements satisfying the
\* predicate; the lengths for a predicate and for its negation add up to
\* the length of the input.
C8_Filter ==
    LET Accepted(x) == x \in predicate[1]
        Refused(x) == x \notin predicate[1]
    IN  /\ kept # <<>> => kept[1] = SelectSeq(iterable, Accepted)
        /\ rejected # <<>> => rejected[1] = SelectSeq(iterable, Refused)
        /\ (kept # <<>> /\ rejected # <<>>) =>
               Len(kept[1]) + Len(rejected[1]) = Len(iterable)

\* C8 witness: Filter ran with a predicate and with its negation and both
\* kept something.
C8_Witness ==
    /\ kept # <<>>
    /\ rejected # <<>>
    /\ kept[1] # <<>>
    /\ rejected[1] # <<>>

\* C9 as stated: there is a slice and a predicate for which TakeWhile
\* followed by SkipWhile does not give back the slice.
C9_NotComplementary ==
    \E s \in Iterables : \E p \in Predicates :
        TakeWhile(s, p) \o SkipWhile(s, p) # s

\* C9 amended: TakeWhile and SkipWhile with the same predicate are
\* complementary: their results, in that order, concatenate to the input.
C9_Complementary ==
    (taken # <<>> /\ skipped # <<>>) => taken[1] \o skipped[1] = iterable

\* C9 witness: both were called with one predicate and both returned a
\* non-empty slice.
C9_Witness ==
    /\ taken # <<>>
    /\ skipped # <<>>
    /\ taken[1] # <<>>
    /\ skipped[1] # <<>>

\* C10: when len + size - 1 exceeds the largest int, Chunk still does not
\* panic and returns ceil(len/size) chunks whose concatenation is the input.
C10_NoWrap ==
    (chunked # <<>> /\ size[1] > 0 /\ Len(iterable) + size[1] - 1 > MaxInt) =>
        /\ ~chunked[1].panicked
        /\ chunked[1].result # <<>>
        /\ Len(chunked[1].result[1].Chunks) =
               (Len(iterable) + size[1] - 1) \div size[1]
        /\ Flatten(chunked[1].result[1].Chunks) = iterable

=============================================================================
